---------------------------- MODULE Spec2Model ----------------------------
(***************************************************************************)
(* A model of generate_codebooks.py: the type detector (detect_type,       *)
(* try_parse_formats), the per-column accumulator (ColumnStats), the table *)
(* analyzer (analyze_file) and the spreadsheet row source                  *)
(* (iter_xlsx_rows, column_reference_to_index, read_cell_value).           *)
(*                                                                         *)
(* A text (Python str) is a sequence of one-character strings.  An         *)
(* Optional value is a sequence of length 0 (None) or 1 (the value).       *)
(***************************************************************************)
EXTENDS Integers, Sequences, FiniteSets, TLC

VARIABLES
    domain,             \* the raw cell values the column under test may hold
    col,                \* the ColumnStats accumulator under test
    seen,               \* history: distinct trimmed non-empty texts, first-seen order
    last_raw,           \* history: the argument of the latest observe call
    pc,                 \* analyze_file: "start" | "rows" | "done" | "idle"
    headers,            \* analyze_file: headers, the first row pulled
    normalized_headers, \* analyze_file: normalized_headers
    stats,              \* analyze_file: stats (sequence of ColumnStats)
    row_count,          \* analyze_file: row_count
    row,                \* analyze_file: the row last pulled from the iterator
    born,               \* history: for each column the data row at which it was created
    report,             \* analyze_file: the returned report (None until return)
    pulled,             \* history: the data rows pulled from the row source so far
    xpc,                \* iter_xlsx_rows: "row" | "cells" | "yielded" | "idle"
    shared_strings,     \* iter_xlsx_rows: the shared-string table
    elem,               \* iter_xlsx_rows: the <row> element's cells
    cell_i,             \* iter_xlsx_rows: number of cells of elem already handled
    idx,                \* iter_xlsx_rows: idx of the cell handled last
    row_data,           \* iter_xlsx_rows: row_data
    yielded,            \* iter_xlsx_rows: the row yielded (None until the yield)
    dtext,              \* detect_type under test: its argument
    dresult,            \* detect_type under test: its result (None until called)
    mpc,                \* main: "loop" | "returned" | "raised" | "idle"
    datasets,           \* main: sorted(data_dir.iterdir())
    position,           \* main: number of datasets the loop has taken
    processed,          \* main: processed
    written             \* main: the datasets whose codebook was written

vars == <<domain, col, seen, last_raw, pc, headers, normalized_headers, stats, row_count,
          row, born, report, pulled, xpc, shared_strings, elem, cell_i, idx, row_data,
          yielded, dtext, dresult, mpc, datasets, position, processed, written>>

statsVars == <<domain, col, seen, last_raw>>
analyzeVars == <<pc, headers, normalized_headers, stats, row_count, row, born, report, pulled>>
xlsxVars == <<xpc, shared_strings, elem, cell_i, idx, row_data, yielded>>
detectVars == <<dtext, dresult>>
mainVars == <<mpc, datasets, position, processed, written>>

-----------------------------------------------------------------------------
(* Optional values and generic helpers *)

None == <<>>
Some(x) == <<x>>
IsNone(o) == Len(o) = 0
Get(o) == o[1]

Range(s) == {s[i] : i \in 1..Len(s)}
Min2(a, b) == IF a <= b THEN a ELSE b

-----------------------------------------------------------------------------
(* Characters *)

Digits == <<"0", "1", "2", "3", "4", "5", "6", "7", "8", "9">>
DigitSet == Range(Digits)
DigitVal(c) == (CHOOSE i \in 1..10 : Digits[i] = c) - 1
Upper == <<"A", "B", "C", "D", "E", "F", "G", "H", "I", "J", "K", "L", "M",
           "N", "O", "P", "Q", "R", "S", "T", "U", "V", "W", "X", "Y", "Z">>
Lower == <<"a", "b", "c", "d", "e", "f", "g", "h", "i", "j", "k", "l", "m",
           "n", "o", "p", "q", "r", "s", "t", "u", "v", "w", "x", "y", "z">>
UpperSet == Range(Upper)
Whitespace == {" ", "\t"}

\* str.lower() on one character, and on a text
LowerChar(c) == IF c \in UpperSet THEN Lower[CHOOSE i \in 1..26 : Upper[i] = c] ELSE c
lower(text) == [i \in 1..Len(text) |-> LowerChar(text[i])]

\* str.strip(): drop leading and trailing whitespace
strip(text) ==
    LET n == Len(text)
        keep == {i \in 1..n : text[i] \notin Whitespace}
    IN  IF keep = {} THEN <<>>
        ELSE LET a == CHOOSE i \in keep : \A j \in keep : i <= j
                 b == CHOOSE i \in keep : \A j \in keep : i >= j
             IN  SubSeq(text, a, b)

\* str(n) for a natural number n
RECURSIVE str(_)
str(n) == IF n < 10 THEN <<Digits[n + 1]>> ELSE Append(str(n \div 10), Digits[(n % 10) + 1])


-----------------------------------------------------------------------------
(* Numbers.  A parsed number is [neg, ip, fp]: sign, integer digits without *)
(* leading zeros (zero is the empty sequence) and fraction digits without   *)
(* trailing zeros.  Python's int is unbounded; a float is a 64-bit double.  *)

ToDigits(text) == [i \in 1..Len(text) |-> DigitVal(text[i])]

StripLead(ds) ==
    LET nz == {i \in 1..Len(ds) : ds[i] # 0}
    IN  IF nz = {} THEN <<>>
        ELSE SubSeq(ds, CHOOSE i \in nz : \A j \in nz : i <= j, Len(ds))

StripTrail(ds) ==
    LET nz == {i \in 1..Len(ds) : ds[i] # 0}
    IN  IF nz = {} THEN <<>>
        ELSE SubSeq(ds, 1, CHOOSE i \in nz : \A j \in nz : i >= j)

Number(neg, ip, fp) ==
    [neg |-> neg /\ (ip # <<>> \/ fp # <<>>), ip |-> ip, fp |-> fp]

\* -1, 0, 1: two digit sequences without leading zeros as natural numbers
CmpDigits(a, b) ==
    IF Len(a) # Len(b) THEN (IF Len(a) < Len(b) THEN -1 ELSE 1)
    ELSE LET diff == {i \in 1..Len(a) : a[i] # b[i]}
         IN  IF diff = {} THEN 0
             ELSE LET k == CHOOSE i \in diff : \A j \in diff : i <= j
                  IN  IF a[k] < b[k] THEN -1 ELSE 1

\* -1, 0, 1: two fraction digit sequences without trailing zeros
CmpFrac(a, b) ==
    LET n == Min2(Len(a), Len(b))
        diff == {i \in 1..n : a[i] # b[i]}
    IN  IF diff # {}
        THEN LET k == CHOOSE i \in diff : \A j \in diff : i <= j
             IN  IF a[k] < b[k] THEN -1 ELSE 1
        ELSE IF Len(a) = Len(b) THEN 0 ELSE IF Len(a) < Len(b) THEN -1 ELSE 1

CmpMag(x, y) ==
    LET c == CmpDigits(x.ip, y.ip) IN IF c # 0 THEN c ELSE CmpFrac(x.fp, y.fp)

\* x < y and x > y on floats
NumLess(x, y) ==
    IF x.neg # y.neg THEN x.neg
    ELSE IF x.neg THEN CmpMag(x, y) = 1 ELSE CmpMag(x, y) = -1
NumGreater(x, y) == NumLess(y, x)

\* 2^53: every integer of smaller magnitude is a double
Two53 == <<9, 0, 0, 7, 1, 9, 9, 2, 5, 4, 7, 4, 0, 9, 9, 2>>

Odd(ds) == Len(ds) > 0 /\ ds[Len(ds)] % 2 = 1

HalfDigits(ds) ==
    StripLead([i \in 1..Len(ds) |->
        ((IF i > 1 THEN (ds[i - 1] % 2) * 10 ELSE 0) + ds[i]) \div 2])

DoubleDigits(ds) ==
    LET n == Len(ds)
        c(i) == IF i <= n /\ ds[i] >= 5 THEN 1 ELSE 0
        body == [i \in 1..n |-> (2 * ds[i] + c(i + 1)) % 10]
    IN  IF c(1) = 1 THEN <<1>> \o body ELSE body

IncDigits(ds) ==
    LET n == Len(ds)
        not9 == {i \in 1..n : ds[i] # 9}
    IN  IF not9 = {} THEN <<1>> \o [i \in 1..n |-> 0]
        ELSE LET k == CHOOSE i \in not9 : \A j \in not9 : i >= j
             IN  [i \in 1..n |-> IF i < k THEN ds[i] ELSE IF i = k THEN ds[i] + 1 ELSE 0]

RECURSIVE ShiftLeft(_, _)
ShiftLeft(ds, e) == IF e = 0 THEN ds ELSE ShiftLeft(DoubleDigits(ds), e - 1)

\* round-half-even of q * 2^e (+ guard and sticky bits) to a 53-bit mantissa
RECURSIVE RoundShift(_, _, _, _)
RoundShift(q, e, guard, sticky) ==
    IF CmpDigits(q, Two53) < 0
    THEN ShiftLeft(IF guard = 1 /\ (sticky \/ Odd(q)) THEN IncDigits(q) ELSE q, e)
    ELSE RoundShift(HalfDigits(q), e + 1, IF Odd(q) THEN 1 ELSE 0, sticky \/ guard = 1)

\* float(n) for an int n: the nearest double, which is again an integer
float_of_int(n) ==
    IF CmpDigits(n.ip, Two53) <= 0 THEN n
    ELSE Number(n.neg, RoundShift(n.ip, 0, 0, FALSE), <<>>)

\* int(text) for a text INT_RE accepts.  CPython refuses (ValueError) a
\* numeral of more than 4300 digits; None models the ValueError.
IntMaxStrDigits == 4300
HasSign(text) == Len(text) > 0 /\ text[1] \in {"+", "-"}
Unsigned(text) == IF HasSign(text) THEN SubSeq(text, 2, Len(text)) ELSE text

\* 2^63, and n outside the signed 64-bit range
Two63 == <<9, 2, 2, 3, 3, 7, 2, 0, 3, 6, 8, 5, 4, 7, 7, 5, 8, 0, 8>>
OutsideInt64(n) ==
    IF n.neg THEN CmpDigits(n.ip, Two63) > 0 ELSE CmpDigits(n.ip, Two63) >= 0

\* int with a 64-bit parse: a value outside the range is a ValueError
int64(text) ==
    LET n == Number(text[1] = "-", StripLead(ToDigits(Unsigned(text))), <<>>)
    IN  IF Len(Unsigned(text)) > IntMaxStrDigits \/ OutsideInt64(n) THEN None ELSE Some(n)

int(text) ==
    IF Len(Unsigned(text)) > IntMaxStrDigits THEN None
    ELSE Some(Number(text[1] = "-", StripLead(ToDigits(Unsigned(text))), <<>>))

\* float(text) for a text FLOAT_RE accepts.  A decimal of at most 15
\* significant digits is kept as written (distinct such decimals are
\* distinct doubles, in the same order); a longer integral value is rounded.
float(text) ==
    LET u == Unsigned(text)
        dot == CHOOSE i \in 1..Len(u) : u[i] = "."
        x == Number(text[1] = "-", StripLead(ToDigits(SubSeq(u, 1, dot - 1))),
                    StripTrail(ToDigits(SubSeq(u, dot + 1, Len(u)))))
    IN  IF x.fp = <<>> THEN float_of_int(x) ELSE x

\* INT_RE = ^[+-]?\d+$
INT_RE(text) ==
    LET u == Unsigned(text)
    IN  Len(u) >= 1 /\ \A i \in 1..Len(u) : u[i] \in DigitSet

\* FLOAT_RE = ^[+-]?(?:\d+\.\d*|\.\d+|\d+\.\d+)$
FLOAT_RE(text) ==
    LET u == Unsigned(text)
        dots == {i \in 1..Len(u) : u[i] = "."}
    IN  /\ Cardinality(dots) = 1
        /\ \A i \in 1..Len(u) : u[i] \in DigitSet \cup {"."}
        /\ Len(u) >= 2

-----------------------------------------------------------------------------
(* datetime.strptime.  A format is a sequence of items: a directive        *)
(* ("%Y", "%m", "%d", "%H", "%M", "%S") or a literal character.  strptime  *)
(* turns the format into a regular expression (matched ignoring case, a    *)
(* blank of the format becoming \s+), takes the first match of a prefix of *)
(* the text and refuses (ValueError) when text remains or when the fields  *)
(* are no calendar date-time.  A datetime is <<Y, m, d, H, M, S>>.         *)

DATETIME_FORMATS == <<
    <<"%Y", "-", "%m", "-", "%d", " ", "%H", ":", "%M", ":", "%S">>,
    <<"%Y", "-", "%m", "-", "%d", " ", "%H", ":", "%M">>,
    <<"%Y", "/", "%m", "/", "%d", " ", "%H", ":", "%M", ":", "%S">>,
    <<"%Y", "/", "%m", "/", "%d", " ", "%H", ":", "%M">>,
    <<"%Y", "-", "%m", "-", "%d", "T", "%H", ":", "%M", ":", "%S">>,
    <<"%Y", "-", "%m", "-", "%d", "T", "%H", ":", "%M">>,
    <<"%Y", "%m", "%d", "T", "%H", "%M", "%S">> >>

DATE_FORMATS == <<
    <<"%Y", "-", "%m", "-", "%d">>,
    <<"%Y", "/", "%m", "/", "%d">>,
    <<"%Y", "%m", "%d">> >>

IsDigitAt(text, p) == p <= Len(text) /\ text[p] \in DigitSet
Dig(text, p) == DigitVal(text[p])
TwoDig(text, p) == 10 * Dig(text, p) + Dig(text, p + 1)

\* the two-character alternatives of a directive's pattern accept v
TwoDigitOk(item, text, p) ==
    /\ IsDigitAt(text, p) /\ IsDigitAt(text, p + 1)
    /\ LET v == TwoDig(text, p)
       IN  CASE item = "%m" -> v \in 1..12
             [] item = "%d" -> v \in 1..31
             [] item = "%H" -> v \in 0..23
             [] item = "%M" -> v \in 0..59
             [] item = "%S" -> v \in 0..61
             [] OTHER -> FALSE

\* the one-character alternative: [1-9] for %m and %d, \d for the others
OneDigitOk(item, text, p) ==
    /\ IsDigitAt(text, p)
    /\ item \in {"%m", "%d"} => Dig(text, p) # 0

\* The candidate matches of one format item at position p, in the order
\* the regular expression tries them: <<length, value>> pairs.
Alternatives(item, text, p) ==
    CASE item = "%Y" ->
            IF \A k \in 0..3 : IsDigitAt(text, p + k)
            THEN << <<4, 100 * TwoDig(text, p) + TwoDig(text, p + 2)>> >>
            ELSE <<>>
      [] item \in {"%m", "%d", "%H", "%M", "%S"} ->
            (IF TwoDigitOk(item, text, p) THEN << <<2, TwoDig(text, p)>> >> ELSE <<>>)
            \o (IF OneDigitOk(item, text, p) THEN << <<1, Dig(text, p)>> >> ELSE <<>>)
            \o (IF item = "%d" /\ p <= Len(text) /\ text[p] = " "
                   /\ IsDigitAt(text, p + 1) /\ Dig(text, p + 1) # 0
                THEN << <<2, Dig(text, p + 1)>> >> ELSE <<>>)
      [] item = " " ->
            LET run == CHOOSE n \in 0..Len(text) :
                          /\ \A k \in 0..(n - 1) : p + k <= Len(text) /\ text[p + k] \in Whitespace
                          /\ ~(p + n <= Len(text) /\ text[p + n] \in Whitespace)
            IN  [j \in 1..run |-> <<run - j + 1, 0>>]
      [] OTHER ->
            IF p <= Len(text) /\ LowerChar(text[p]) = LowerChar(item)
            THEN << <<1, 0>> >> ELSE <<>>

Field(item) ==
    CASE item = "%Y" -> 1 [] item = "%m" -> 2 [] item = "%d" -> 3
      [] item = "%H" -> 4 [] item = "%M" -> 5 [] item = "%S" -> 6 [] OTHER -> 0

\* The first match of fmt[k..] at text[p..]: None, or [end, value]
RECURSIVE MatchFrom(_, _, _, _, _)
RECURSIVE TryAlternatives(_, _, _, _, _, _, _)
MatchFrom(fmt, k, text, p, value) ==
    IF k > Len(fmt) THEN Some([end |-> p, value |-> value])
    ELSE TryAlternatives(fmt, k, text, p, value, Alternatives(fmt[k], text, p), 1)
TryAlternatives(fmt, k, text, p, value, alts, j) ==
    IF j > Len(alts) THEN None
    ELSE LET f == Field(fmt[k])
             v == IF f = 0 THEN value ELSE [value EXCEPT ![f] = alts[j][2]]
             rest == MatchFrom(fmt, k + 1, text, p + alts[j][1], v)
         IN  IF IsNone(rest) THEN TryAlternatives(fmt, k, text, p, value, alts, j + 1)
             ELSE rest

IsLeap(y) == (y % 4 = 0 /\ y % 100 # 0) \/ y % 400 = 0
DaysInMonth(y, m) ==
    IF m = 2 THEN (IF IsLeap(y) THEN 29 ELSE 28)
    ELSE IF m \in {4, 6, 9, 11} THEN 30 ELSE 31

\* the datetime constructor accepts the fields
ValidDateTime(v) ==
    /\ v[1] >= 1
    /\ v[3] <= DaysInMonth(v[1], v[2])
    /\ v[6] <= 59

\* strptime after the match m: unconverted data or an impossible date-time
\* is a ValueError (None)
CheckMatch(text, m) ==
    IF IsNone(m) THEN None
    ELSE IF Get(m).end # Len(text) + 1 THEN None
    ELSE IF ~ValidDateTime(Get(m).value) THEN None
    ELSE Some(Get(m).value)

\* dt.datetime.strptime(text, fmt): None models the ValueError
strptime(text, fmt) ==
    CheckMatch(text, MatchFrom(fmt, 1, text, 1, <<1900, 1, 1, 0, 0, 0>>))

\* parsed < other on datetimes
DateLess(a, b) ==
    \E k \in 1..6 : a[k] < b[k] /\ \A j \in 1..(k - 1) : a[j] = b[j]
DateGreater(a, b) == DateLess(b, a)

\* try_parse_formats: [value, fmt] of the first format that parses, else None
RECURSIVE try_parse_from(_, _, _)
RECURSIVE try_format(_, _, _, _)
try_parse_from(text, formats, i) ==
    IF i > Len(formats) THEN None
    ELSE try_format(text, formats, i, strptime(text, formats[i]))
try_format(text, formats, i, v) ==
    IF IsNone(v) THEN try_parse_from(text, formats, i + 1)
    ELSE Some([value |-> Get(v), fmt |-> formats[i]])
try_parse_formats(text, formats) == try_parse_from(text, formats, 1)

BOOL_VALUES == {<<"t", "r", "u", "e">>, <<"f", "a", "l", "s", "e">>,
                <<"y", "e", "s">>, <<"n", "o">>, <<"y">>, <<"n">>}

\* detect_type: [dtype, parsed, note].  parsed is a datetime for "datetime"
\* and "date", a Number for "integer" and "float", and is not modelled for
\* "boolean" and "string" (no caller reads it); note is None or the format.
\* It is written as a chain, one definition per branch, each taking the
\* value the branch before it computed.
NoValue == <<>>

\* detect_type from "if FLOAT_RE.fullmatch(text)" on
detect_float(text) ==
    IF FLOAT_RE(text)
    THEN [dtype |-> "float", parsed |-> float(text), note |-> None]
    ELSE [dtype |-> "string", parsed |-> NoValue, note |-> None]

\* detect_type inside "if INT_RE.fullmatch(text)"; n is int(text)
detect_integer(text, n) ==
    IF ~IsNone(n)
    THEN [dtype |-> "integer", parsed |-> Get(n), note |-> None]
    ELSE detect_float(text)

\* detect_type from "lower = text.lower()" on
detect_scalar(text) ==
    IF lower(text) \in BOOL_VALUES
    THEN [dtype |-> "boolean", parsed |-> NoValue, note |-> None]
    ELSE IF INT_RE(text) THEN detect_integer(text, int(text))
    ELSE detect_float(text)

\* detect_date with the integer pattern tried before the date formats
detect_date_after_integer(text, date_value) ==
    IF ~IsNone(date_value) /\ ~INT_RE(text)
    THEN [dtype |-> "date", parsed |-> Get(date_value).value,
          note |-> Some(Get(date_value).fmt)]
    ELSE detect_scalar(text)

\* detect_type from "if date_value" on
detect_date(text, date_value) ==
    IF ~IsNone(date_value)
    THEN [dtype |-> "date", parsed |-> Get(date_value).value,
          note |-> Some(Get(date_value).fmt)]
    ELSE detect_scalar(text)

\* detect_type from "if datetime_value" on
detect_datetime(text, datetime_value) ==
    IF ~IsNone(datetime_value)
    THEN [dtype |-> "datetime", parsed |-> Get(datetime_value).value,
          note |-> Some(Get(datetime_value).fmt)]
    ELSE detect_date(text, try_parse_formats(text, DATE_FORMATS))

detect_type(text) ==
    detect_datetime(text, try_parse_formats(text, DATETIME_FORMATS))

-----------------------------------------------------------------------------
(* ColumnStats *)

COLUMN_PRIORITY(dtype) ==
    CASE dtype = "datetime" -> 6
      [] dtype = "date" -> 5
      [] dtype = "float" -> 4
      [] dtype = "integer" -> 3
      [] dtype = "boolean" -> 2
      [] dtype = "string" -> 1
      [] OTHER -> 0
SAMPLE_LIMIT == 5
UNIQUE_LIMIT == 1000

\* f"Column_{n}"
ColumnName(n) == <<"C", "o", "l", "u", "m", "n", "_">> \o str(n)

\* ColumnStats.__init__
ColumnStats(name, index) ==
    [name |-> IF name # <<>> THEN name ELSE ColumnName(index + 1),
     total |-> 0,
     non_null |-> 0,
     type_counts |-> <<>>,   \* Counter: <<key, count>> pairs in insertion order
     notes |-> {},
     samples |-> <<>>,
     unique_values |-> {},
     unique_overflow |-> FALSE,
     numeric_min |-> None, numeric_min_text |-> None,
     numeric_max |-> None, numeric_max_text |-> None,
     temporal_min |-> None, temporal_min_text |-> None,
     temporal_max |-> None, temporal_max_text |-> None]

\* Increment with the update of an existing key lost
IncrementLost(counts, dtype) ==
    IF \E i \in 1..Len(counts) : counts[i][1] = dtype THEN counts
    ELSE Append(counts, <<dtype, 1>>)

\* type_counts[dtype] += 1: a new key goes last
Increment(counts, dtype) ==
    IF \E i \in 1..Len(counts) : counts[i][1] = dtype
    THEN [i \in 1..Len(counts) |->
            IF counts[i][1] = dtype THEN <<dtype, counts[i][2] + 1>> ELSE counts[i]]
    ELSE Append(counts, <<dtype, 1>>)

\* UpdateNumeric with the second "if" written as "elif"
UpdateNumericElif(self, value, text) ==
    LET lo == IsNone(self.numeric_min) \/ NumLess(value, Get(self.numeric_min))
        hi == ~lo /\ (IsNone(self.numeric_max) \/ NumGreater(value, Get(self.numeric_max)))
    IN  [self EXCEPT
            !.numeric_min = IF lo THEN Some(value) ELSE @,
            !.numeric_min_text = IF lo THEN Some(text) ELSE @,
            !.numeric_max = IF hi THEN Some(value) ELSE @,
            !.numeric_max_text = IF hi THEN Some(text) ELSE @]

\* UpdateNumeric with the comparisons written <= and >=
UpdateNumericOnEqual(self, value, text) ==
    LET lo == IsNone(self.numeric_min) \/ ~NumGreater(value, Get(self.numeric_min))
        hi == IsNone(self.numeric_max) \/ ~NumLess(value, Get(self.numeric_max))
    IN  [self EXCEPT
            !.numeric_min = IF lo THEN Some(value) ELSE @,
            !.numeric_min_text = IF lo THEN Some(text) ELSE @,
            !.numeric_max = IF hi THEN Some(value) ELSE @,
            !.numeric_max_text = IF hi THEN Some(text) ELSE @]

\* observe, the integer/float branch (value = float(parsed))
UpdateNumeric(self, value, text) ==
    LET lo == IsNone(self.numeric_min) \/ NumLess(value, Get(self.numeric_min))
        hi == IsNone(self.numeric_max) \/ NumGreater(value, Get(self.numeric_max))
    IN  [self EXCEPT
            !.numeric_min = IF lo THEN Some(value) ELSE @,
            !.numeric_min_text = IF lo THEN Some(text) ELSE @,
            !.numeric_max = IF hi THEN Some(value) ELSE @,
            !.numeric_max_text = IF hi THEN Some(text) ELSE @]

\* UpdateTemporal with the second "if" written as "elif"
UpdateTemporalElif(self, parsed, text) ==
    LET lo == IsNone(self.temporal_min) \/ DateLess(parsed, Get(self.temporal_min))
        hi == ~lo /\ (IsNone(self.temporal_max) \/ DateGreater(parsed, Get(self.temporal_max)))
    IN  [self EXCEPT
            !.temporal_min = IF lo THEN Some(parsed) ELSE @,
            !.temporal_min_text = IF lo THEN Some(text) ELSE @,
            !.temporal_max = IF hi THEN Some(parsed) ELSE @,
            !.temporal_max_text = IF hi THEN Some(text) ELSE @]

\* observe, the date/datetime branch
UpdateTemporal(self, parsed, text) ==
    LET lo == IsNone(self.temporal_min) \/ DateLess(parsed, Get(self.temporal_min))
        hi == IsNone(self.temporal_max) \/ DateGreater(parsed, Get(self.temporal_max))
    IN  [self EXCEPT
            !.temporal_min = IF lo THEN Some(parsed) ELSE @,
            !.temporal_min_text = IF lo THEN Some(text) ELSE @,
            !.temporal_max = IF hi THEN Some(parsed) ELSE @,
            !.temporal_max_text = IF hi THEN Some(text) ELSE @]

\* UpdateSamples without the membership test
UpdateSamplesNoDedup(samples, text) ==
    IF Len(samples) < SAMPLE_LIMIT THEN Append(samples, text) ELSE samples

\* observe, the samples step
UpdateSamples(samples, text) ==
    IF text \notin Range(samples) /\ Len(samples) < SAMPLE_LIMIT
    THEN Append(samples, text)
    ELSE samples

\* UpdateUnique with the limit test written >=
UpdateUniqueOffByOne(self, text) ==
    IF ~self.unique_overflow
    THEN LET added == self.unique_values \cup {text}
         IN  IF Cardinality(added) >= UNIQUE_LIMIT
             THEN [self EXCEPT !.unique_values = {}, !.unique_overflow = TRUE]
             ELSE [self EXCEPT !.unique_values = added]
    ELSE self

\* UpdateUnique without the test of unique_overflow
UpdateUniqueNoGuard(self, text) ==
    LET added == self.unique_values \cup {text}
    IN  IF Cardinality(added) > UNIQUE_LIMIT
        THEN [self EXCEPT !.unique_values = {}, !.unique_overflow = TRUE]
        ELSE [self EXCEPT !.unique_values = added]

\* observe, the unique_values step
UpdateUnique(self, text) ==
    IF ~self.unique_overflow
    THEN LET added == self.unique_values \cup {text}
         IN  IF Cardinality(added) > UNIQUE_LIMIT
             THEN [self EXCEPT !.unique_values = {}, !.unique_overflow = TRUE]
             ELSE [self EXCEPT !.unique_values = added]
    ELSE self

\* TrimRaw without the strip()
TrimRawUnstripped(raw_value) == IF IsNone(raw_value) THEN <<>> ELSE Get(raw_value)

\* (raw_value or "").strip(); raw_value is an Optional text
TrimRaw(raw_value) == strip(IF IsNone(raw_value) THEN <<>> ELSE Get(raw_value))

\* observe, the extrema: d is detect_type(text).  (float(parsed) raises
\* OverflowError for an int of magnitude 2^1024 or more; texts that long are
\* outside the model.)
UpdateExtrema(self, d, text) ==
    IF d.dtype = "integer" THEN UpdateNumeric(self, float_of_int(d.parsed), text)
    ELSE IF d.dtype = "float" THEN UpdateNumeric(self, d.parsed, text)
    ELSE IF d.dtype \in {"date", "datetime"} THEN UpdateTemporal(self, d.parsed, text)
    ELSE self

\* observe from "self.non_null += 1" on: d is detect_type(text)
observe_typed(self, text, d) ==
    UpdateUnique(
        [UpdateExtrema(
            [self EXCEPT
                !.non_null = @ + 1,
                !.type_counts = Increment(@, d.dtype),
                !.notes = IF IsNone(d.note) THEN @ ELSE @ \cup {Get(d.note)}],
            d, text)
         EXCEPT !.samples = UpdateSamples(@, text)],
        text)

\* observe from "if not text" on: self.total is already incremented
observe_text(self, text) ==
    IF text = <<>> THEN self ELSE observe_typed(self, text, detect_type(text))

\* ColumnStats.observe
observe(self, raw_value) ==
    observe_text([self EXCEPT !.total = @ + 1], TrimRaw(raw_value))

\* ScoreGreater comparing the counts alone
ScoreGreaterCountOnly(a, b) == a[1] > b[1]

\* candidate > best_score on (count, priority) pairs
ScoreGreater(a, b) == a[1] > b[1] \/ (a[1] = b[1] /\ a[2] > b[2])

\* the loop of resolved_type over type_counts.items(), from item i on
RECURSIVE resolve_from(_, _, _, _)
resolve_from(counts, i, best_type, best_score) ==
    IF i > Len(counts) THEN best_type
    ELSE LET candidate == <<counts[i][2], COLUMN_PRIORITY(counts[i][1])>>
         IN  IF ScoreGreater(candidate, best_score)
             THEN resolve_from(counts, i + 1, Some(counts[i][1]), candidate)
             ELSE resolve_from(counts, i + 1, best_type, best_score)

\* ColumnStats.resolved_type
resolved_type(self) ==
    IF self.type_counts = <<>> THEN "empty"
    ELSE LET best == resolve_from(self.type_counts, 1, None, <<-1, -1>>)
         IN  IF IsNone(best) THEN "string" ELSE Get(best)

\* ColumnStats.unique_count_display
unique_count_display(self) ==
    IF self.unique_overflow THEN <<">">> \o str(UNIQUE_LIMIT)
    ELSE str(Cardinality(self.unique_values))

\* text or "-" for an Optional text
OrDash(text) == IF IsNone(text) \/ Get(text) = <<>> THEN <<"-">> ELSE Get(text)

\* ColumnStats.min_display and max_display
min_display(self, dtype) ==
    IF dtype \in {"integer", "float"} THEN OrDash(self.numeric_min_text)
    ELSE IF dtype \in {"date", "datetime"} THEN OrDash(self.temporal_min_text)
    ELSE <<"-">>
max_display(self, dtype) ==
    IF dtype \in {"integer", "float"} THEN OrDash(self.numeric_max_text)
    ELSE IF dtype \in {"date", "datetime"} THEN OrDash(self.temporal_max_text)
    ELSE <<"-">>

-----------------------------------------------------------------------------
(* One column fed through observe.  The raw values a column may hold are   *)
(* drawn from a domain chosen at the start; a raw value is an Optional     *)
(* text.                                                                   *)

\* integers and floats, two of them equal as floats (2^63 - 1 and 2^63)
NumericRaws ==
    {
     Some(<<"1">>),                                                           \* "1"
     Some(<<"+", "1">>),                                                      \* "+1"
     Some(<<"1", ".", "0">>),                                                 \* "1.0"
     Some(<<"-", "2">>),                                                      \* "-2"
     Some(<<"9", "2", "2", "3", "3", "7", "2", "0", "3", "6", "8", "5", "4", "7", "7", "5", "8", "0", "7">>), \* "9223372036854775807"
     Some(<<"9", "2", "2", "3", "3", "7", "2", "0", "3", "6", "8", "5", "4", "7", "7", "5", "8", "0", "8">>) \* "9223372036854775808"
    }

\* texts of the date format %Y-%m-%d, and the empty text
DateRaws ==
    {
     Some(<<"2", "0", "2", "4", "-", "0", "1", "-", "3", "1">>),              \* "2024-01-31"
     Some(<<"2", "0", "2", "4", "-", "1", "-", "5">>),                        \* "2024-1-5"
     Some(<<"2", "0", "2", "4", "-", "0", "1", "-", "0", "5">>),              \* "2024-01-05"
     Some(<<"2", "0", "2", "3", "-", "1", "2", "-", "3", "1">>),              \* "2023-12-31"
     Some(<<>>)                                                               \* ""
    }

\* texts of the datetime format %Y-%m-%d %H:%M, and None
DatetimeRaws ==
    {
     Some(<<"2", "0", "2", "4", "-", "0", "1", "-", "3", "1", " ", "1", "0", ":", "0", "0">>), \* "2024-01-31 10:00"
     Some(<<"2", "0", "2", "4", "-", "0", "1", "-", "3", "1", " ", "9", ":", "0", "5">>), \* "2024-01-31 9:05"
     Some(<<"2", "0", "2", "4", "-", "0", "1", "-", "3", "1", " ", "0", "9", ":", "0", "5">>), \* "2024-01-31 09:05"
     Some(<<"2", "0", "2", "3", "-", "1", "2", "-", "3", "1", " ", "2", "3", ":", "5", "9">>), \* "2023-12-31 23:59"
     None                                                                     \* None
    }

\* one text of every type, with None and a blank text
MixedRaws ==
    {
     None,                                                                    \* None
     Some(<<" ">>),                                                           \* " "
     Some(<<" ", "7", " ">>),                                                 \* " 7 "
     Some(<<"7", ".", "5">>),                                                 \* "7.5"
     Some(<<"y", "e", "s">>),                                                 \* "yes"
     Some(<<"a", "b", "c">>),                                                 \* "abc"
     Some(<<"2", "0", "2", "4", "-", "0", "1", "-", "3", "1">>),              \* "2024-01-31"
     Some(<<"2", "0", "2", "4", "-", "0", "1", "-", "3", "1", " ", "1", "0", ":", "0", "0">>) \* "2024-01-31 10:00"
    }

\* six distinct texts and a second spelling of one of them
SampleRaws ==
    {
     Some(<<"a">>),                                                           \* "a"
     Some(<<" ", "a", " ">>),                                                 \* " a "
     Some(<<"7">>),                                                           \* "7"
     Some(<<"7", ".", "5">>),                                                 \* "7.5"
     Some(<<"y", "e", "s">>),                                                 \* "yes"
     Some(<<"2", "0", "2", "4", "-", "0", "1", "-", "3", "1">>),              \* "2024-01-31"
     Some(<<"b">>)                                                            \* "b"
    }

Domains == {NumericRaws, DateRaws, DatetimeRaws, MixedRaws}

\* the number of observe calls on one column
MaxObs == 5
\* the number of observe calls on the column of SampleRaws
MaxSampleObs == 6
\* the number of repeated values fed to the column of distinct numerals
MaxRepeats == 2

AnalyzeIdle ==
    /\ pc = "idle" /\ headers = <<>> /\ normalized_headers = <<>> /\ stats = <<>> /\ row_count = 0
    /\ row = <<>> /\ born = <<>> /\ report = None /\ pulled = <<>>
XlsxIdle ==
    /\ xpc = "idle" /\ shared_strings = <<>> /\ elem = <<>> /\ cell_i = 0
    /\ idx = 0 /\ row_data = <<>> /\ yielded = None
DetectIdle == dtext = <<>> /\ dresult = None
MainIdle ==
    /\ mpc = "idle" /\ datasets = <<>> /\ position = 0 /\ processed = 0 /\ written = {}
StatsIdle ==
    /\ domain = {} /\ col = ColumnStats(<<"A">>, 0) /\ seen = <<>> /\ last_raw = None

\* the history of distinct non-empty texts after one more text
Remember(history, text) ==
    IF text = <<>> \/ text \in Range(history) THEN history ELSE Append(history, text)

\* one observe call on col, with the history kept beside it
ObserveStep(raw) ==
    /\ col' = observe(col, raw)
    /\ seen' = Remember(seen, TrimRaw(raw))
    /\ last_raw' = Some(raw)
    /\ UNCHANGED <<domain, analyzeVars, xlsxVars, detectVars, mainVars>>

InitColumn ==
    /\ domain \in Domains /\ col = ColumnStats(<<"A">>, 0) /\ seen = <<>> /\ last_raw = None
    /\ AnalyzeIdle /\ XlsxIdle /\ DetectIdle /\ MainIdle

Observe ==
    /\ col.total < MaxObs
    /\ \E raw \in domain : ObserveStep(raw)

NextColumn == Observe
SpecColumn == InitColumn /\ [][NextColumn]_vars

InitSamples ==
    /\ domain = SampleRaws /\ col = ColumnStats(<<"A">>, 0) /\ seen = <<>> /\ last_raw = None
    /\ AnalyzeIdle /\ XlsxIdle /\ DetectIdle /\ MainIdle

ObserveSample ==
    /\ col.total < MaxSampleObs
    /\ \E raw \in domain : ObserveStep(raw)

NextSamples == ObserveSample
SpecSamples == InitSamples /\ [][NextSamples]_vars

\* A column of distinct numerals "1", "2", ... fed in increasing order, with
\* at most MaxRepeats values fed again (the first or the latest numeral),
\* up to MaxBeyond numerals past UNIQUE_LIMIT.
MaxBeyond == 2

InitUnique == StatsIdle /\ AnalyzeIdle /\ XlsxIdle /\ DetectIdle /\ MainIdle

ObserveNew ==
    /\ Len(seen) < UNIQUE_LIMIT + MaxBeyond
    /\ ObserveStep(Some(str(Len(seen) + 1)))

ObserveAgain ==
    /\ Len(seen) >= 1
    /\ col.total - Len(seen) < MaxRepeats
    /\ \E n \in {1, Len(seen)} : ObserveStep(Some(str(n)))

NextUnique == ObserveNew \/ ObserveAgain
SpecUnique == InitUnique /\ [][NextUnique]_vars

-----------------------------------------------------------------------------
(* detect_type called on one text.  The texts are the short texts over a   *)
(* few characters, the eight-digit numerals that look like compact dates,  *)
(* and texts of the other formats.                                         *)

\* the length of the short texts
MaxTextLen == 3

RECURSIVE TextsOfLen(_, _)
TextsOfLen(chars, n) ==
    IF n = 0 THEN {<<>>}
    ELSE {Append(t, c) : t \in TextsOfLen(chars, n - 1), c \in chars}

ShortTexts ==
    UNION {TextsOfLen({"1", "0", ".", "-", "y"}, n) : n \in 1..MaxTextLen}

CompactDates ==
    {y \o m \o d :
        y \in {<<"2", "0", "2", "4">>, <<"2", "0", "2", "3">>, <<"0", "0", "0", "0">>},
        m \in {<<"0", "1">>, <<"0", "2">>, <<"1", "3">>},
        d \in {<<"2", "9">>, <<"3", "1">>, <<"0", "0">>}}

OtherTexts ==
    {
     <<"2", "0", "2", "4", "-", "0", "1", "-", "3", "1">>,   \* "2024-01-31"
     <<"2", "0", "2", "4", "/", "1", "/", "5">>,   \* "2024/1/5"
     <<"2", "0", "2", "4", "-", "0", "2", "-", "3", "0">>,   \* "2024-02-30"
     <<"2", "0", "2", "4", "-", "0", "1", "-", "3", "1", " ", "1", "0", ":", "0", "0">>,   \* "2024-01-31 10:00"
     <<"2", "0", "2", "4", "-", "0", "1", "-", "3", "1", " ", "1", "0", ":", "0", "0", ":", "6", "1">>,   \* "2024-01-31 10:00:61"
     <<"2", "0", "2", "4", "/", "0", "1", "/", "3", "1", " ", "9", ":", "0", "5", ":", "0", "7">>,   \* "2024/01/31 9:05:07"
     <<"2", "0", "2", "4", "-", "0", "1", "-", "3", "1", "T", "1", "0", ":", "0", "0", ":", "0", "0">>,   \* "2024-01-31T10:00:00"
     <<"2", "0", "2", "4", "-", "0", "1", "-", "3", "1", "t", "1", "0", ":", "0", "0">>,   \* "2024-01-31t10:00"
     <<"2", "0", "2", "4", "0", "1", "3", "1", "T", "1", "0", "1", "5", "0", "0">>,   \* "20240131T101500"
     <<"2", "0", "2", "4", "1", "1">>,   \* "202411"
     <<"2", "0", "2", "4", "1", "3", "1">>,   \* "2024131"
     <<"T", "R", "U", "E">>,   \* "TRUE"
     <<"N", "o">>,   \* "No"
     <<"y", "e", "s">>,   \* "yes"
     <<"n", "o", "p", "e">>,   \* "nope"
     <<"+", "5">>,   \* "+5"
     <<"1", "2", "3", "4", "5">>,   \* "12345"
     <<"1", "e", "5">>,   \* "1e5"
     <<"a", "b", "c">>,   \* "abc"
     <<"9", "2", "2", "3", "3", "7", "2", "0", "3", "6", "8", "5", "4", "7", "7", "5", "8", "0", "8">>,   \* "9223372036854775808"
     <<"2", "0", "2", "4", "-", "0", "1", "-", "3", "1", " ">>,   \* "2024-01-31 "
     <<"0", "0", "0", "1", "-", "0", "1", "-", "0", "1">>   \* "0001-01-01"
    }

\* trimmed and non-empty, as observe passes them
DetectTexts ==
    {t \in ShortTexts \cup CompactDates \cup OtherTexts : strip(t) = t /\ t # <<>>}

InitDetect ==
    /\ dtext \in DetectTexts /\ dresult = None
    /\ StatsIdle /\ AnalyzeIdle /\ XlsxIdle /\ MainIdle

\* the call detect_type(dtext)
Detect ==
    /\ IsNone(dresult)
    /\ dresult' = Some(detect_type(dtext))
    /\ UNCHANGED <<dtext, statsVars, analyzeVars, xlsxVars, mainVars>>

NextDetect == Detect
SpecDetect == InitDetect /\ [][NextDetect]_vars

-----------------------------------------------------------------------------
(* analyze_file.  The row source (iter_csv_rows or iter_xlsx_rows) yields  *)
(* rows of trimmed cells; the model draws the header row and the data rows *)
(* from two sets of such rows.                                             *)

\* the rows pulled first
HeaderRows ==
    {
     <<>>,                                                        \* []
     <<<<"A">>>>,                                                 \* ["A"]
     <<<<"A">>, <<"B">>>>,                                        \* ["A", "B"]
     <<<<"A">>, <<>>>>,                                           \* ["A", ""]
     <<<<>>, <<"B">>>>                                            \* ["", "B"]
    }

\* the rows pulled after the first
DataRows ==
    {
     <<>>,                                                        \* []
     <<<<>>>>,                                                    \* [""]
     <<<<"7">>>>,                                                 \* ["7"]
     <<<<"7">>, <<>>>>,                                           \* ["7", ""]
     <<<<>>, <<"x">>>>,                                           \* ["", "x"]
     <<<<"7">>, <<"8">>, <<"9">>>>,                               \* ["7", "8", "9"]
     <<<<"7">>, <<>>, <<"2", "0", "2", "4", "-", "0", "1", "-", "3", "1">>, <<"x">>>> \* ["7", "", "2024-01-31", "x"]
    }

\* the number of data rows of a file
MaxRows == 3

\* CountRow leaving a row without cells uncounted
CountRowWithCells(n, r) == IF r = <<>> THEN n ELSE n + 1

\* row_count += 1, for the row r just pulled
CountRow(n, r) == n + 1

\* PadRow leaving a short row as it is
PadRowNot(r, n) == r

\* row + [""] * (n - len(row)) when the row is shorter than n
PadRow(r, n) ==
    IF Len(r) < n THEN r \o [k \in 1..(n - Len(r)) |-> <<>>] ELSE r

\* ExtendColumns naming a new column by its zero-based index
ExtendColumnsZeroBased(columns, n) ==
    columns \o [k \in 1..(n - Len(columns)) |->
                  ColumnStats(ColumnName(Len(columns) + k - 1), Len(columns) + k - 1)]

\* stats.append(ColumnStats(f"Column_{idx+1}", idx)) for idx in range(len(stats), n)
ExtendColumns(columns, n) ==
    columns \o [k \in 1..(n - Len(columns)) |->
                  ColumnStats(ColumnName(Len(columns) + k), Len(columns) + k - 1)]

\* normalized_headers.append(f"Column_{idx+1}") for idx in range(len(stats), n)
ExtendHeaders(names, n) ==
    names \o [k \in 1..(n - Len(names)) |-> ColumnName(Len(names) + k)]

\* stats[idx].observe(value) for idx, value in enumerate(row[:len(stats)])
ObserveRow(columns, r) ==
    [i \in 1..Len(columns) |-> IF i <= Len(r) THEN observe(columns[i], Some(r[i])) ELSE columns[i]]

\* the history of the data rows (counted from 1) at which the columns were
\* created; the columns of the header row count as created at data row 1
ExtendBorn(b, n, k) == b \o [i \in 1..(n - Len(b)) |-> k]

Report(names, rows, columns) == [headers |-> names, rows |-> rows, columns |-> columns]

Init ==
    /\ pc = "start" /\ headers = <<>> /\ normalized_headers = <<>> /\ stats = <<>>
    /\ row_count = 0 /\ row = <<>> /\ born = <<>> /\ report = None /\ pulled = <<>>
    /\ StatsIdle /\ XlsxIdle /\ DetectIdle /\ MainIdle

\* next(iterator) raises StopIteration: the source has no row at all
NoRows ==
    /\ pc = "start"
    /\ report' = Some(Report(<<>>, 0, <<>>))
    /\ pc' = "done"
    /\ UNCHANGED <<headers, normalized_headers, stats, row_count, row, born, pulled>>
    /\ UNCHANGED <<statsVars, xlsxVars, detectVars, mainVars>>

\* headers = next(iterator), then normalized_headers and stats are built
ReadHeader ==
    /\ pc = "start"
    /\ \E h \in HeaderRows :
          /\ headers' = h
          /\ normalized_headers' = [i \in 1..Len(h) |-> strip(h[i])]
          /\ stats' = [i \in 1..Len(h) |-> ColumnStats(strip(h[i]), i - 1)]
          /\ born' = [i \in 1..Len(h) |-> 1]
    /\ row_count' = 0
    /\ pc' = "rows"
    /\ UNCHANGED <<row, report, pulled>>
    /\ UNCHANGED <<statsVars, xlsxVars, detectVars, mainVars>>

\* one pass of "for row in iterator"
ProcessRow ==
    /\ pc = "rows"
    /\ row_count < MaxRows
    /\ \E r \in DataRows :
          /\ row' = r
          /\ pulled' = Append(pulled, r)
          /\ row_count' = CountRow(row_count, r)
          /\ IF Len(r) > Len(stats)
             THEN /\ stats' = ObserveRow(ExtendColumns(stats, Len(r)), r)
                  /\ normalized_headers' = ExtendHeaders(normalized_headers, Len(r))
                  /\ born' = ExtendBorn(born, Len(r), Len(pulled) + 1)
             ELSE /\ stats' = ObserveRow(stats, PadRow(r, Len(stats)))
                  /\ UNCHANGED <<normalized_headers, born>>
    /\ UNCHANGED <<pc, headers, report>>
    /\ UNCHANGED <<statsVars, xlsxVars, detectVars, mainVars>>

\* the iterator is exhausted: the report is returned
Return ==
    /\ pc = "rows"
    /\ report' = Some(Report(normalized_headers, row_count, stats))
    /\ pc' = "done"
    /\ UNCHANGED <<headers, normalized_headers, stats, row_count, row, born, pulled>>
    /\ UNCHANGED <<statsVars, xlsxVars, detectVars, mainVars>>

Next == NoRows \/ ReadHeader \/ ProcessRow \/ Return
Spec == Init /\ [][Next]_vars

-----------------------------------------------------------------------------
(* iter_xlsx_rows, from the loop over the <row> elements of the sheet on.  *)
(* A child of a <row> is [tag, r, t, v, is]: its tag ("c" or another), the *)
(* attributes r and t (Optional texts), the <v> node (None when absent,    *)
(* else its Optional text) and the <t> texts under <is> (None when there   *)
(* is no <is>).                                                            *)

\* COLUMN_RE.match(ref).group(1): the leading capital letters of ref
COLUMN_RE_letters(ref) ==
    LET stop == {i \in 1..Len(ref) : ref[i] \notin UpperSet}
        n == IF stop = {} THEN Len(ref)
             ELSE (CHOOSE i \in stop : \A j \in stop : i <= j) - 1
    IN  SubSeq(ref, 1, n)

\* ord(char) - ord("A") + 1
LetterValue(char) == CHOOSE i \in 1..26 : Upper[i] = char

\* the loop "total = total * 26 + (ord(char) - ord('A') + 1)" from letter i on
RECURSIVE column_total(_, _, _)
column_total(letters, i, total) ==
    IF i > Len(letters) THEN total
    ELSE column_total(letters, i + 1, total * 26 + LetterValue(letters[i]))

\* the loop with the letters counted from zero: plain base 26
RECURSIVE column_total_plain(_, _, _)
column_total_plain(letters, i, total) ==
    IF i > Len(letters) THEN total
    ELSE column_total_plain(letters, i + 1, total * 26 + LetterValue(letters[i]) - 1)

\* column_reference_to_index in plain base 26
column_reference_plain(ref) ==
    IF COLUMN_RE_letters(ref) = <<>> THEN Len(ref)
    ELSE column_total_plain(COLUMN_RE_letters(ref), 1, 0)

column_reference_to_index(ref) ==
    IF COLUMN_RE_letters(ref) = <<>> THEN Len(ref)
    ELSE column_total(COLUMN_RE_letters(ref), 1, 0) - 1

\* text or default, for an Optional text
TextOr(text, default) == IF IsNone(text) \/ Get(text) = <<>> THEN default ELSE Get(text)

\* int(idx_text): blanks around, an optional sign, digits; else ValueError (None)
RECURSIVE NatOf(_)
NatOf(ds) == IF ds = <<>> THEN 0 ELSE 10 * NatOf(SubSeq(ds, 1, Len(ds) - 1)) + ds[Len(ds)]
PyInt(text) ==
    IF INT_RE(strip(text))
    THEN Some((IF strip(text)[1] = "-" THEN -1 ELSE 1) * NatOf(ToDigits(Unsigned(strip(text)))))
    ELSE None

\* SharedString without the test "0 <=": a negative index counts from the end
SharedStringFromEnd(value_node, i, table) ==
    IF IsNone(i) THEN TextOr(Get(value_node), <<>>)
    ELSE IF Get(i) < Len(table) /\ table # <<>> THEN table[(Get(i) % Len(table)) + 1]
    ELSE IF table # <<>> THEN table[Len(table)] ELSE <<>>

\* read_cell_value, the shared-string branch after the index was parsed
SharedString(value_node, i, table) ==
    IF IsNone(i) THEN TextOr(Get(value_node), <<>>)
    ELSE IF 0 <= Get(i) /\ Get(i) < Len(table) THEN table[Get(i) + 1]
    ELSE IF table # <<>> THEN table[Len(table)] ELSE <<>>

\* "".join(node.text or "" for node in is_node.iterfind(".//t"))
RECURSIVE JoinTexts(_)
JoinTexts(parts) ==
    IF parts = <<>> THEN <<>> ELSE TextOr(Head(parts), <<>>) \o JoinTexts(Tail(parts))

read_cell_value(cell, table) ==
    IF cell.t = Some(<<"s">>) /\ ~IsNone(cell.v)
    THEN SharedString(cell.v, PyInt(TextOr(Get(cell.v), <<"0">>)), table)
    ELSE IF cell.t = Some(<<"i", "n", "l", "i", "n", "e", "S", "t", "r">>)
    THEN (IF IsNone(cell.is) THEN <<>> ELSE JoinTexts(Get(cell.is)))
    ELSE IF cell.t = Some(<<"b">>)
    THEN (IF IsNone(cell.v) THEN <<>>
          ELSE IF Get(cell.v) = Some(<<"1">>) THEN <<"T", "R", "U", "E">>
          ELSE <<"F", "A", "L", "S", "E">>)
    ELSE IF IsNone(cell.v) THEN <<>>
    ELSE TextOr(Get(cell.v), <<>>)

\* idx of a cell: from its reference, or the running position
CellIndex(cell, data) ==
    IF ~IsNone(cell.r) /\ Get(cell.r) # <<>> THEN column_reference_to_index(Get(cell.r))
    ELSE Len(data)

\* while len(row_data) <= idx: row_data.append(None); row_data[idx] = value
PutAt(data, i, value) ==
    [j \in 1..(IF Len(data) > i + 1 THEN Len(data) ELSE i + 1) |->
        IF j = i + 1 THEN Some(value) ELSE IF j <= Len(data) THEN data[j] ELSE None]

\* while row_data and row_data[-1] is None: row_data.pop()
RECURSIVE PopNone(_)
PopNone(data) ==
    IF data # <<>> /\ IsNone(data[Len(data)]) THEN PopNone(SubSeq(data, 1, Len(data) - 1))
    ELSE data

\* [("" if cell is None else str(cell).strip()) for cell in row_data]
RowTexts(data) == [j \in 1..Len(data) |-> IF IsNone(data[j]) THEN <<>> ELSE strip(Get(data[j]))]

\* the children a <row> may hold
Children ==
    {
     \* a cell without reference
     [tag |-> "c", r |-> None, t |-> None, v |-> Some(Some(<<"7">>)), is |-> None],
     \* C1 with an untrimmed value
     [tag |-> "c", r |-> Some(<<"C", "1">>), t |-> None, v |-> Some(Some(<<" ", "8", " ">>)), is |-> None],
     \* A1, shared string 1
     [tag |-> "c", r |-> Some(<<"A", "1">>), t |-> Some(<<"s">>), v |-> Some(Some(<<"1">>)), is |-> None],
     \* a shared string index out of range
     [tag |-> "c", r |-> None, t |-> Some(<<"s">>), v |-> Some(Some(<<"5">>)), is |-> None],
     \* a negative shared string index
     [tag |-> "c", r |-> None, t |-> Some(<<"s">>), v |-> Some(Some(<<"-", "2">>)), is |-> None],
     \* B1 without <v>
     [tag |-> "c", r |-> Some(<<"B", "1">>), t |-> None, v |-> None, is |-> None],
     \* a lower-case reference
     [tag |-> "c", r |-> Some(<<"c", "1">>), t |-> None, v |-> Some(Some(<<"x">>)), is |-> None],
     \* a boolean cell with an empty reference
     [tag |-> "c", r |-> Some(<<>>), t |-> Some(<<"b">>), v |-> Some(Some(<<"1">>)), is |-> None],
     \* an inline string of two runs
     [tag |-> "c", r |-> Some(<<"B", "1">>), t |-> Some(<<"i", "n", "l", "i", "n", "e", "S", "t", "r">>), v |-> None, is |-> Some(<<Some(<<"x">>), None>>)],
     \* a child that is no cell
     [tag |-> "extLst", r |-> None, t |-> None, v |-> None, is |-> None]
    }

\* the column names of one and two letters, and a cell of row 1 for each
LetterNames ==
    {<<Upper[i]>> : i \in 1..26} \cup {<<Upper[i], Upper[j]>> : i, j \in 1..26}
ReferencedCells ==
    {[tag |-> "c", r |-> Some(l \o <<"1">>), t |-> None, v |-> Some(Some(<<"7">>)), is |-> None] :
        l \in LetterNames}

\* the number of children of a <row> drawn from Children
MaxCells == 2

RECURSIVE SeqsUpTo(_, _)
SeqsUpTo(S, n) ==
    IF n = 0 THEN {<<>>}
    ELSE SeqsUpTo(S, n - 1) \cup {Append(q, x) : q \in SeqsUpTo(S, n - 1), x \in S}

RowElems == SeqsUpTo(Children, MaxCells) \cup {<<c>> : c \in ReferencedCells}

\* the shared-string tables of the workbook
SharedTables == {<<>>, << <<"a">>, <<"b", " ">> >>}

InitXlsx ==
    /\ xpc = "row" /\ shared_strings \in SharedTables /\ elem = <<>> /\ cell_i = 0
    /\ idx = 0 /\ row_data = <<>> /\ yielded = None
    /\ StatsIdle /\ AnalyzeIdle /\ DetectIdle /\ MainIdle

\* iterparse reaches the end of a <row>: row_data = []
StartRow ==
    /\ xpc = "row"
    /\ elem' \in RowElems
    /\ row_data' = <<>> /\ cell_i' = 0 /\ idx' = 0
    /\ xpc' = "cells"
    /\ UNCHANGED <<shared_strings, yielded, statsVars, analyzeVars, detectVars, mainVars>>

\* "for cell in elem", a child that is no cell: continue
SkipChild ==
    /\ xpc = "cells" /\ cell_i < Len(elem)
    /\ elem[cell_i + 1].tag # "c"
    /\ cell_i' = cell_i + 1
    /\ UNCHANGED <<xpc, shared_strings, elem, idx, row_data, yielded>>
    /\ UNCHANGED <<statsVars, analyzeVars, detectVars, mainVars>>

\* "for cell in elem", a cell: it is stored at its index
PutCell ==
    /\ xpc = "cells" /\ cell_i < Len(elem)
    /\ elem[cell_i + 1].tag = "c"
    /\ cell_i' = cell_i + 1
    /\ idx' = CellIndex(elem[cell_i + 1], row_data)
    /\ row_data' = PutAt(row_data, idx', read_cell_value(elem[cell_i + 1], shared_strings))
    /\ UNCHANGED <<xpc, shared_strings, elem, yielded>>
    /\ UNCHANGED <<statsVars, analyzeVars, detectVars, mainVars>>

\* the children are done: trailing None are popped and the row is yielded
YieldRow ==
    /\ xpc = "cells" /\ cell_i = Len(elem)
    /\ yielded' = Some(RowTexts(PopNone(row_data)))
    /\ xpc' = "yielded"
    /\ UNCHANGED <<shared_strings, elem, cell_i, idx, row_data>>
    /\ UNCHANGED <<statsVars, analyzeVars, detectVars, mainVars>>

\* the consumer asks for the next row: elem.clear() (the locals of the row
\* are dead from here on and are reset)
Resume ==
    /\ xpc = "yielded"
    /\ elem' = <<>> /\ cell_i' = 0 /\ idx' = 0 /\ row_data' = <<>> /\ yielded' = None
    /\ xpc' = "row"
    /\ UNCHANGED <<shared_strings, statsVars, analyzeVars, detectVars, mainVars>>

NextXlsx == StartRow \/ SkipChild \/ PutCell \/ YieldRow \/ Resume
SpecXlsx == InitXlsx /\ [][NextXlsx]_vars

-----------------------------------------------------------------------------
(* main: the loop over sorted(data_dir.iterdir()).  A dataset is           *)
(* [suffix, content]: the suffix of its path and whether its content can   *)
(* be read as a table ("table") or makes analyze_file raise ("damaged":    *)
(* no zip archive, undecodable bytes, a cell whose number is too large for *)
(* float()).  The loop has no exception handler.                            *)

\* dataset.suffix.lower()
suffix_lower(suffix) ==
    CASE suffix = ".CSV" -> ".csv"
      [] suffix = ".XLSX" -> ".xlsx"
      [] OTHER -> suffix

\* dataset.suffix.lower() in {".csv", ".xlsx", ".xlsm", ".xls"}
Supported(dataset) == suffix_lower(dataset.suffix) \in {".csv", ".xlsx", ".xlsm", ".xls"}

\* analyze_file(dataset) raises
AnalyzeRaises(dataset) == dataset.content = "damaged"

Suffixes == {".csv", ".XLSX", ".txt"}
Contents == {"table", "damaged"}
Datasets == [suffix : Suffixes, content : Contents]

\* the number of entries of the data directory
MaxFiles == 3

InitBatch ==
    /\ mpc = "loop" /\ datasets \in SeqsUpTo(Datasets, MaxFiles)
    /\ position = 0 /\ processed = 0 /\ written = {}
    /\ StatsIdle /\ AnalyzeIdle /\ XlsxIdle /\ DetectIdle

\* "for dataset in ...": the suffix is not a table's, continue
SkipDataset ==
    /\ mpc = "loop" /\ position < Len(datasets)
    /\ ~Supported(datasets[position + 1])
    /\ position' = position + 1
    /\ UNCHANGED <<mpc, datasets, processed, written>>
    /\ UNCHANGED <<statsVars, analyzeVars, xlsxVars, detectVars>>

\* analyze_file returns a report: write_codebook, processed += 1
WriteCodebook ==
    /\ mpc = "loop" /\ position < Len(datasets)
    /\ Supported(datasets[position + 1])
    /\ ~AnalyzeRaises(datasets[position + 1])
    /\ written' = written \cup {position + 1}
    /\ processed' = processed + 1
    /\ position' = position + 1
    /\ UNCHANGED <<mpc, datasets>>
    /\ UNCHANGED <<statsVars, analyzeVars, xlsxVars, detectVars>>

\* analyze_file raises: nothing catches the exception and main ends with it
AnalyzeFails ==
    /\ mpc = "loop" /\ position < Len(datasets)
    /\ Supported(datasets[position + 1])
    /\ AnalyzeRaises(datasets[position + 1])
    /\ mpc' = "raised"
    /\ position' = position + 1
    /\ UNCHANGED <<datasets, processed, written>>
    /\ UNCHANGED <<statsVars, analyzeVars, xlsxVars, detectVars>>

\* the loop is over: main returns
ReturnMain ==
    /\ mpc = "loop" /\ position = Len(datasets)
    /\ mpc' = "returned"
    /\ UNCHANGED <<datasets, position, processed, written>>
    /\ UNCHANGED <<statsVars, analyzeVars, xlsxVars, detectVars>>

NextBatch == SkipDataset \/ WriteCodebook \/ AnalyzeFails \/ ReturnMain
SpecBatch == InitBatch /\ [][NextBatch]_vars

-----------------------------------------------------------------------------
(* Properties of one column *)

RECURSIVE SumCounts(_)
SumCounts(counts) == IF counts = <<>> THEN 0 ELSE Head(counts)[2] + SumCounts(Tail(counts))

\* C1: after any sequence of observe calls, non_null <= total and the counts
\* of type_counts add up to non_null.
C1_CountsAddUp ==
    /\ col.non_null <= col.total
    /\ SumCounts(col.type_counts) = col.non_null

\* C1 witness: empty and non-empty values of two types, one type seen twice
C1_Witness ==
    /\ col.non_null < col.total
    /\ Len(col.type_counts) >= 2
    /\ \E i \in 1..Len(col.type_counts) : col.type_counts[i][2] >= 2

\* C4: samples has no duplicates, at most SAMPLE_LIMIT entries, and is the
\* first min(5, d) distinct non-empty trimmed texts in first-seen order.
C4_SamplesFirstSeen ==
    /\ Len(col.samples) <= SAMPLE_LIMIT
    /\ \A i, j \in 1..Len(col.samples) : i # j => col.samples[i] # col.samples[j]
    /\ col.samples = SubSeq(seen, 1, Min2(SAMPLE_LIMIT, Len(seen)))

\* C4 witness: a sixth distinct text was observed and is not sampled
C4_Witness ==
    /\ Len(seen) = 6
    /\ Len(col.samples) = 5
    /\ seen[6] \notin Range(col.samples)

\* the tags from the lowest priority to the highest
PriorityOrder == <<"string", "boolean", "integer", "float", "date", "datetime">>
Rank(dtype) == CHOOSE i \in 1..Len(PriorityOrder) : PriorityOrder[i] = dtype
Histogram(self) == Range(self.type_counts)
Reverse(s) == [i \in 1..Len(s) |-> s[Len(s) + 1 - i]]

\* C5: resolved_type is "empty" for an empty histogram and otherwise the tag
\* with the greatest (count, priority), whatever the insertion order.
C5_ResolvedTypeIsMajority ==
    /\ Histogram(col) = {} => resolved_type(col) = "empty"
    /\ Histogram(col) # {} =>
          \E w \in Histogram(col) :
             /\ resolved_type(col) = w[1]
             /\ \A h \in Histogram(col) :
                   h[2] < w[2] \/ (h[2] = w[2] /\ Rank(h[1]) <= Rank(w[1]))
    /\ resolved_type([col EXCEPT !.type_counts = Reverse(@)]) = resolved_type(col)

\* C5 witness: two tags tie for the greatest count and the tag of the lower
\* priority was inserted first
C5_Witness ==
    \E i, j \in 1..Len(col.type_counts) :
       /\ i < j
       /\ col.type_counts[i][2] = col.type_counts[j][2]
       /\ Rank(col.type_counts[i][1]) < Rank(col.type_counts[j][1])
       /\ \A k \in 1..Len(col.type_counts) : col.type_counts[k][2] <= col.type_counts[i][2]
       /\ resolved_type(col) = col.type_counts[j][1]

\* every text observed so far is accepted by the one format fmt
AllMatch(fmt) == seen # <<>> /\ \A i \in 1..Len(seen) : ~IsNone(strptime(seen[i], fmt))

\* the column resolves to dtype and its min/max displays are observed texts
\* whose values under fmt are the earliest and the latest of all
ExtremaUnder(fmt, dtype) ==
    LET lo == min_display(col, resolved_type(col))
        hi == max_display(col, resolved_type(col))
        val(t) == Get(strptime(t, fmt))
    IN  /\ resolved_type(col) = dtype
        /\ lo \in Range(seen) /\ hi \in Range(seen)
        /\ \A i \in 1..Len(seen) :
              /\ ~DateLess(val(seen[i]), val(lo))
              /\ ~DateGreater(val(seen[i]), val(hi))

\* C7: a column whose non-empty values all match one date (datetime) format
\* resolves to date (datetime), and its min and max displays are the texts
\* of the earliest and latest values, in whatever order they were observed.
C7_TemporalRoundTrip ==
    /\ \A k \in 1..Len(DATE_FORMATS) :
          AllMatch(DATE_FORMATS[k]) => ExtremaUnder(DATE_FORMATS[k], "date")
    /\ \A k \in 1..Len(DATETIME_FORMATS) :
          AllMatch(DATETIME_FORMATS[k]) => ExtremaUnder(DATETIME_FORMATS[k], "datetime")

\* C7 witness: a date column whose earliest and latest values were both
\* observed after its first value
C7_Witness ==
    /\ AllMatch(DATE_FORMATS[1])
    /\ Len(seen) >= 3
    /\ min_display(col, "date") # seen[1]
    /\ max_display(col, "date") # seen[1]

\* the integer texts observed so far whose value is outside the 64-bit range
BigIntegerTexts ==
    {t \in Range(seen) : INT_RE(t) /\ OutsideInt64(Number(t[1] = "-", StripLead(ToDigits(Unsigned(t))), <<>>))}

\* C10 as claimed: an integer text outside the signed 64-bit range is not
\* tagged integer but string, and does not update numeric_min / numeric_max.
C10_BigIntegerIsString ==
    \A t \in BigIntegerTexts :
       /\ detect_type(t).dtype = "string"
       /\ col.numeric_min_text # Some(t)
       /\ col.numeric_max_text # Some(t)

\* What the code does on the inputs of C10: int() is unbounded, so an integer
\* text outside the signed 64-bit range is tagged integer, is counted as
\* integer, and takes part in numeric_min / numeric_max widened to float.
C10_BigIntegerIsInteger ==
    \A t \in BigIntegerTexts :
       LET d == detect_type(t)
       IN  /\ d.dtype = "integer"
           /\ d.parsed.ip = StripLead(ToDigits(Unsigned(t)))
           /\ \E i \in 1..Len(col.type_counts) : col.type_counts[i][1] = "integer"
           /\ ~IsNone(col.numeric_min) /\ ~IsNone(col.numeric_max)
           /\ ~NumLess(float_of_int(d.parsed), Get(col.numeric_min))
           /\ ~NumGreater(float_of_int(d.parsed), Get(col.numeric_max))

\* 2^63 was observed after a smaller number and is the maximum of the column
C10_Witness ==
    /\ Len(seen) >= 2
    /\ seen[Len(seen)] \in BigIntegerTexts
    /\ col.numeric_max_text = Some(seen[Len(seen)])
    /\ col.numeric_min_text # col.numeric_max_text

\* C2: up to UNIQUE_LIMIT distinct texts unique_overflow is false and
\* unique_values is the set of the texts seen; the text after that sets
\* unique_overflow and leaves unique_values empty.
C2_UniqueCap ==
    /\ Len(seen) <= UNIQUE_LIMIT =>
          ~col.unique_overflow /\ col.unique_values = Range(seen)
    /\ Len(seen) > UNIQUE_LIMIT =>
          col.unique_overflow /\ col.unique_values = {}

\* C2 witness: the observation of the 1001st distinct text has just overflowed
C2_Witness ==
    /\ Len(seen) = UNIQUE_LIMIT + 1
    /\ last_raw = Some(Some(seen[UNIQUE_LIMIT + 1]))
    /\ col.unique_overflow

\* C3: once unique_overflow is set, every later observe leaves it set, leaves
\* unique_values empty, and unique_count_display keeps saying ">1000".
C3_OverflowPermanent ==
    [][col.unique_overflow =>
          /\ col'.unique_overflow
          /\ col'.unique_values = {}
          /\ unique_count_display(col') = <<">", "1", "0", "0", "0">>]_vars

\* C3 witness: after the overflow a new text and an old text were observed
C3_Witness ==
    /\ col.unique_overflow
    /\ Len(seen) = UNIQUE_LIMIT + 2
    /\ col.total > Len(seen)
    /\ last_raw = Some(Some(seen[1]))

\* the float a detected value d stands for in the numeric extrema (None
\* when d is no integer and no float)
NumericOf(d) ==
    IF d.dtype = "integer" THEN Some(float_of_int(d.parsed))
    ELSE IF d.dtype = "float" THEN Some(d.parsed)
    ELSE None
NumericValue(text) == NumericOf(detect_type(text))

\* the date-time a detected value d stands for in the temporal extrema
TemporalOf(d) == IF d.dtype \in {"date", "datetime"} THEN Some(d.parsed) ELSE None
TemporalValue(text) == TemporalOf(detect_type(text))

\* the non-empty trimmed texts a column of Domains may observe, and the
\* numeric and temporal value of each
ColumnTexts ==
    {strip(Get(raw)) : raw \in {r \in UNION Domains : ~IsNone(r)}} \ {<<>>}
NumericValueOf == [text \in ColumnTexts |-> NumericValue(text)]
TemporalValueOf == [text \in ColumnTexts |-> TemporalValue(text)]

\* the numeric (temporal) values of the texts observed so far, in the order
\* of seen
SeenNumeric == [k \in 1..Len(seen) |-> NumericValueOf[seen[k]]]
SeenTemporal == [k \in 1..Len(seen) |-> TemporalValueOf[seen[k]]]

\* the values held by a sequence of Optional values
ValuesOf(optionals) == UNION {Range(optionals[k]) : k \in 1..Len(optionals)}

\* numeric_min and numeric_max of self are unset when values is empty and
\* are else its least and greatest members
ExtremaOf(self, values) ==
    /\ values = {} =>
          /\ IsNone(self.numeric_min) /\ IsNone(self.numeric_min_text)
          /\ IsNone(self.numeric_max) /\ IsNone(self.numeric_max_text)
    /\ values # {} =>
          /\ ~IsNone(self.numeric_min) /\ ~IsNone(self.numeric_max)
          /\ Get(self.numeric_min) \in values
          /\ Get(self.numeric_max) \in values
          /\ \A v \in values :
                ~NumLess(v, Get(self.numeric_min)) /\ ~NumGreater(v, Get(self.numeric_max))
          /\ ~NumGreater(Get(self.numeric_min), Get(self.numeric_max))

\* numeric_min and numeric_max are unset without numeric observations and
\* are else the least and the greatest of the values observed
C15_ExtremaOfObserved == \A values \in {ValuesOf(SeenNumeric)} : ExtremaOf(col, values)

\* an observation that is no integer and no float leaves the four numeric
\* fields alone, and no observation unsets them
C15_NumericFrame ==
    /\ (\E text \in {strip(IF IsNone(Get(last_raw')) THEN <<>> ELSE Get(Get(last_raw')))} :
           text = <<>> \/ IsNone(NumericValueOf[text])) =>
          /\ col'.numeric_min = col.numeric_min
          /\ col'.numeric_min_text = col.numeric_min_text
          /\ col'.numeric_max = col.numeric_max
          /\ col'.numeric_max_text = col.numeric_max_text
    /\ ~IsNone(col.numeric_min) => ~IsNone(col'.numeric_min)
    /\ ~IsNone(col.numeric_max) => ~IsNone(col'.numeric_max)

\* C15: numeric_min and numeric_max are unset until an integer or float is
\* observed and are then the minimum and maximum, as floats, of the
\* integer/float values observed, with numeric_min <= numeric_max; other
\* observations leave the four numeric fields unchanged and none resets them.
C15_NumericExtrema ==
    /\ []C15_ExtremaOfObserved
    /\ [][C15_NumericFrame]_vars

\* C15 witness: 7.5, then 7, then a boolean were observed in a mixed column
C15_Witness ==
    /\ domain = MixedRaws
    /\ seen = << <<"7", ".", "5">>, <<"7">>, <<"y", "e", "s">> >>
    /\ last_raw = Some(Some(<<"y", "e", "s">>))
    /\ col.numeric_min_text = Some(<<"7">>)
    /\ col.numeric_max_text = Some(<<"7", ".", "5">>)

\* raw is None, empty, or made of whitespace only
IsBlank(raw) == IsNone(raw) \/ \A i \in 1..Len(Get(raw)) : Get(raw)[i] \in Whitespace

\* C17: observe of None, of the empty text or of a whitespace-only text
\* adds 1 to total and changes no other field of the accumulator.
C17_BlankOnlyCounts ==
    [][IsBlank(Get(last_raw')) => col' = [col EXCEPT !.total = @ + 1]]_vars

\* C17 witness: a whitespace-only text was observed after None and after two
\* non-empty values
C17_Witness ==
    /\ last_raw = Some(Some(<<" ">>))
    /\ col.non_null = 2 /\ col.total = 4
    /\ col.samples # <<>>

\* the first text observed whose value, in the sequence values of the values
\* of seen, is v
FirstTextOf(values, v) ==
    seen[CHOOSE k \in 1..Len(seen) :
            /\ values[k] = Some(v)
            /\ \A j \in 1..(k - 1) : values[j] # Some(v)]

\* the numeric _text fields hold the first text of the extreme values
FirstNumericKept(self, values) ==
    /\ self.numeric_min_text = Some(FirstTextOf(values, Get(self.numeric_min)))
    /\ self.numeric_max_text = Some(FirstTextOf(values, Get(self.numeric_max)))
FirstTemporalKept(self, values) ==
    /\ self.temporal_min_text = Some(FirstTextOf(values, Get(self.temporal_min)))
    /\ self.temporal_max_text = Some(FirstTextOf(values, Get(self.temporal_max)))

\* C19: among observations of one extreme value (1, +1 and 1.0; 2024-1-5
\* and 2024-01-05) the text kept in the four _text fields is the text of
\* the first of them observed.
C19_FirstTextKept ==
    /\ ~IsNone(col.numeric_min) => \A values \in {SeenNumeric} : FirstNumericKept(col, values)
    /\ ~IsNone(col.temporal_min) => \A values \in {SeenTemporal} : FirstTemporalKept(col, values)

\* C19 witness: +1, then 1, then 1.0 were observed, 1 once more at the end
C19_Witness ==
    /\ domain = NumericRaws
    /\ seen = << <<"+", "1">>, <<"1">>, <<"1", ".", "0">> >>
    /\ col.total = 4 /\ last_raw = Some(Some(<<"1">>))
    /\ col.numeric_min_text = Some(<<"+", "1">>)
    /\ col.numeric_max_text = Some(<<"+", "1">>)

-----------------------------------------------------------------------------
(* Properties of analyze_file *)

\* C6: a data row shorter than the column list makes every missing column
\* observe one empty value; a longer row appends one column Column_N with a
\* fresh accumulator per extra position, which observes the extra cell.
C6_RaggedRows ==
    [][(pc = "rows" /\ row_count' = row_count + 1) =>
          LET n == Len(stats)
              r == row'
          IN  /\ Len(r) < n =>
                    /\ Len(stats') = n
                    /\ \A i \in (Len(r) + 1)..n :
                          stats'[i] = [stats[i] EXCEPT !.total = @ + 1]
              /\ Len(r) > n =>
                    /\ Len(stats') = Len(r)
                    /\ Len(normalized_headers') = Len(r)
                    /\ \A i \in (n + 1)..Len(r) :
                          /\ stats'[i].name = <<"C", "o", "l", "u", "m", "n", "_">> \o str(i)
                          /\ normalized_headers'[i] = stats'[i].name
                          /\ stats'[i].total = 1
                          /\ stats'[i].non_null = (IF r[i] = <<>> THEN 0 ELSE 1)
                          /\ stats'[i].samples = (IF r[i] = <<>> THEN <<>> ELSE <<r[i]>>)
                          /\ stats'[i].unique_values = (IF r[i] = <<>> THEN {} ELSE {r[i]})
    ]_vars

\* C6 witness: header [A, B], a row of one cell, then a row of three cells
C6_Witness ==
    /\ pc = "rows" /\ row_count = 2
    /\ Len(headers) = 2 /\ Len(stats) = 3
    /\ stats[2].total = 2 /\ stats[2].non_null = 1
    /\ stats[3].name = <<"C", "o", "l", "u", "m", "n", "_", "3">>
    /\ stats[3].total = 1 /\ stats[3].samples = << <<"9">> >>

\* C8 as claimed: in the report every column whose header cell is empty is
\* named Column_N both in its accumulator and in the header list.
C8_EmptyHeaderNamed ==
    (pc = "done" /\ ~IsNone(report)) =>
       \A i \in 1..Len(headers) :
          strip(headers[i]) = <<>> =>
             /\ Get(report).columns[i].name = <<"C", "o", "l", "u", "m", "n", "_">> \o str(i)
             /\ Get(report).headers[i] = Get(report).columns[i].name

\* the rows counted agree with the rows pulled after the header row
C12_CountsPulledRows ==
    /\ pc = "rows" => row_count = Len(pulled)
    /\ pc = "done" => Get(report).rows = Len(pulled)

\* the source is exhausted before any row: the report is empty
C12_NoRowAtAll ==
    (pc = "start" /\ pc' = "done") =>
        /\ Get(report').columns = <<>>
        /\ Get(report').headers = <<>>
        /\ Get(report').rows = 0

\* C12: the report's row count is the number of rows pulled after the
\* header row, whatever their lengths; a source without any row gives a
\* report of zero columns, an empty header list and zero rows.
C12_RowCount ==
    /\ []C12_CountsPulledRows
    /\ [][C12_NoRowAtAll]_vars

\* C12 witness: a report over three rows of zero, one and three cells under
\* a header of two cells
C12_Witness ==
    /\ pc = "done" /\ Len(headers) = 2
    /\ Len(pulled) = 3
    /\ \E i, j, k \in 1..3 : Len(pulled[i]) = 0 /\ Len(pulled[j]) = 1 /\ Len(pulled[k]) = 3
    /\ Get(report).rows = 3

\* every column has observed one value per data row from the row of its
\* creation on, and the header list is as long as the column list
C18_TotalsSinceCreation ==
    /\ Len(normalized_headers) = Len(stats)
    /\ Len(born) = Len(stats)
    /\ \A i \in 1..Len(stats) :
          /\ stats[i].total = Len(pulled) - born[i] + 1
          /\ i <= Len(headers) => stats[i].total = Len(pulled)
    /\ pc = "done" =>
          /\ Len(Get(report).headers) = Len(Get(report).columns)
          /\ \A i \in 1..Len(Get(report).columns) :
                /\ Get(report).columns[i].total = Get(report).rows - born[i] + 1
                /\ i <= Len(headers) => Get(report).columns[i].total = Get(report).rows

\* the column list never shrinks and a column keeps its place and name
C18_ColumnsKept ==
    /\ Len(stats') >= Len(stats)
    /\ \A i \in 1..Len(stats) : stats'[i].name = stats[i].name

\* C18: at the end of analyze_file a column's total is the number of data
\* rows from the row of its creation on (rows for a header column,
\* rows - k + 1 for a column synthesized at data row k); the column list
\* never shrinks and the header list is as long as the column list.
C18_TotalsByBirth ==
    /\ []C18_TotalsSinceCreation
    /\ [][C18_ColumnsKept]_vars

\* C18 witness: header [A, B], three rows, a third column created at row 2
\* and a fourth at row 3, the last row being the only long one
C18_Witness ==
    /\ pc = "done" /\ Len(headers) = 2 /\ Get(report).rows = 3
    /\ Len(Get(report).columns) = 4
    /\ born = <<1, 1, 2, 3>>
    /\ Len(pulled[1]) < 2
    /\ Get(report).columns[2].total = 3
    /\ Get(report).columns[3].total = 2
    /\ Get(report).columns[4].total = 1

-----------------------------------------------------------------------------
(* Properties of iter_xlsx_rows *)

\* the name spreadsheets give column i (counted from zero), for i < 702
SpreadsheetName(i) ==
    IF i < 26 THEN <<Upper[i + 1]>>
    ELSE <<Upper[((i - 26) \div 26) + 1], Upper[((i - 26) % 26) + 1]>>

\* the cell handled last carries a non-empty reference
HasReference(cell) == cell.tag = "c" /\ ~IsNone(cell.r) /\ Get(cell.r) # <<>>

\* the index computed for a referenced cell is the one its letters name
C9_IndexIsBijectiveBase26 ==
    (xpc = "cells" /\ cell_i >= 1 /\ HasReference(elem[cell_i])
       /\ COLUMN_RE_letters(Get(elem[cell_i].r)) # <<>>) =>
          /\ idx >= 0
          /\ SpreadsheetName(idx) = COLUMN_RE_letters(Get(elem[cell_i].r))
          /\ Get(elem[cell_i].r) = <<"A", "1">> => idx = 0
          /\ Get(elem[cell_i].r) = <<"Z", "1">> => idx = 25
          /\ Get(elem[cell_i].r) = <<"A", "A", "1">> => idx = 26
          /\ Get(elem[cell_i].r) = <<"A", "B", "1">> => idx = 27

\* a row whose only cell is referenced C1 is yielded as ["", "", value]
C9_OnlyCellC1 ==
    (xpc = "yielded" /\ Len(elem) = 1 /\ HasReference(elem[1])
       /\ Get(elem[1].r) = <<"C", "1">>) =>
          /\ idx = 2
          /\ Len(Get(yielded)) = 3
          /\ Get(yielded)[1] = <<>> /\ Get(yielded)[2] = <<>>
          /\ Get(yielded)[3] = strip(read_cell_value(elem[1], shared_strings))

\* a referenced cell is stored at its index; the indices below it that the
\* row did not have yet hold None, and the others keep what they held
C9_StoredAtIndex ==
    (xpc = "cells" /\ cell_i' = cell_i + 1 /\ HasReference(elem[cell_i + 1])) =>
        /\ Len(row_data') = (IF Len(row_data) > idx' + 1 THEN Len(row_data) ELSE idx' + 1)
        /\ row_data'[idx' + 1] = Some(read_cell_value(elem[cell_i + 1], shared_strings))
        /\ \A j \in (Len(row_data) + 1)..idx' : row_data'[j] = None
        /\ \A j \in 1..Len(row_data) : j # idx' + 1 => row_data'[j] = row_data[j]

\* C9: column_reference_to_index is the bijective base-26 value of the
\* leading letters (A=0, Z=25, AA=26, AB=27), a referenced cell is stored at
\* that index with the missing lower indices filled by None, and a row whose
\* only cell is C1 is yielded as ["", "", value].
C9_ColumnReference ==
    /\ [](C9_IndexIsBijectiveBase26 /\ C9_OnlyCellC1)
    /\ [][C9_StoredAtIndex]_vars

\* C9 witness: the row whose only cell is C1 (value " 8 ") was yielded
C9_Witness ==
    /\ xpc = "yielded" /\ Len(elem) = 1 /\ HasReference(elem[1])
    /\ Get(elem[1].r) = <<"C", "1">>
    /\ elem[1].v = Some(Some(<<" ", "8", " ">>))
    /\ yielded = Some(<< <<>>, <<>>, <<"8">> >>)

\* the cell handled last is a shared-string cell whose <v> holds an integer
IsSharedCell(cell) ==
    /\ cell.tag = "c" /\ cell.t = Some(<<"s">>) /\ ~IsNone(cell.v)
    /\ ~IsNone(PyInt(TextOr(Get(cell.v), <<"0">>)))

\* C13: a shared-string cell with an in-range index i reads shared_strings[i];
\* with any other integer index, negative ones included, it reads the last
\* entry of a non-empty table and the empty text of an empty table.
C13_SharedStringIndex ==
    (xpc = "cells" /\ cell_i >= 1 /\ IsSharedCell(elem[cell_i])) =>
        LET i == Get(PyInt(TextOr(Get(elem[cell_i].v), <<"0">>)))
            n == Len(shared_strings)
            value == row_data[idx + 1]
        IN  /\ (0 <= i /\ i < n) => value = Some(shared_strings[i + 1])
            /\ (~(0 <= i /\ i < n) /\ n > 0) => value = Some(shared_strings[n])
            /\ (~(0 <= i /\ i < n) /\ n = 0) => value = Some(<<>>)

\* C13 witness: index 5 and then index -2 were read from a table of two
C13_Witness ==
    /\ xpc = "cells" /\ cell_i = 2 /\ Len(shared_strings) = 2
    /\ elem[1].t = Some(<<"s">>) /\ elem[1].v = Some(Some(<<"5">>))
    /\ elem[2].t = Some(<<"s">>) /\ elem[2].v = Some(Some(<<"-", "2">>))
    /\ row_data = <<Some(shared_strings[2]), Some(shared_strings[2])>>

\* C14 as claimed: a yielded row is zero-length or ends with a non-empty
\* text (its trailing empty cells are trimmed).
C14_TrailingTrimmed ==
    (xpc = "yielded" /\ Get(yielded) # <<>>) =>
        Get(yielded)[Len(Get(yielded))] # <<>>

-----------------------------------------------------------------------------
(* Properties of detect_type *)

\* the tags in the order detect_type tries them
DetectOrder == <<"datetime", "date", "boolean", "integer", "float", "string">>

\* the pattern of a tag accepts the text
Accepts(tag, text) ==
    CASE tag = "datetime" ->
            \E i \in 1..Len(DATETIME_FORMATS) : ~IsNone(strptime(text, DATETIME_FORMATS[i]))
      [] tag = "date" ->
            \E i \in 1..Len(DATE_FORMATS) : ~IsNone(strptime(text, DATE_FORMATS[i]))
      [] tag = "boolean" -> lower(text) \in BOOL_VALUES
      [] tag = "integer" -> INT_RE(text)
      [] tag = "float" -> FLOAT_RE(text)
      [] OTHER -> TRUE

FirstAccepting(text) ==
    DetectOrder[CHOOSE k \in 1..6 :
                   /\ Accepts(DetectOrder[k], text)
                   /\ \A j \in 1..(k - 1) : ~Accepts(DetectOrder[j], text)]

\* C16: detect_type returns exactly one of the six tags, the first in the
\* order datetime, date, boolean, integer, float, string whose pattern
\* accepts the text; a text that is both a date and an integer (20240131)
\* is a date.
C16_FirstMatchWins ==
    ~IsNone(dresult) =>
        /\ Get(dresult).dtype \in Range(DetectOrder)
        /\ Get(dresult).dtype = FirstAccepting(dtext)
        /\ (Accepts("date", dtext) /\ INT_RE(dtext)) =>
              Get(dresult).dtype = "date"
        /\ dtext = <<"2", "0", "2", "4", "0", "1", "3", "1">> => Get(dresult).dtype = "date"

\* C16 witness: 20240131 was classified, as a date
C16_Witness ==
    /\ dtext = <<"2", "0", "2", "4", "0", "1", "3", "1">>
    /\ INT_RE(dtext)
    /\ ~IsNone(dresult) /\ Get(dresult).dtype = "date"

-----------------------------------------------------------------------------
(* Properties of main *)

\* C11 as claimed: when main has ended, every dataset that can be analysed
\* (a table's suffix, a readable content) has its codebook written, also
\* the ones sorted after a dataset whose analysis failed.
C11_OtherFilesWritten ==
    mpc \in {"returned", "raised"} =>
       \A i \in 1..Len(datasets) :
          (Supported(datasets[i]) /\ ~AnalyzeRaises(datasets[i])) => i \in written

=============================================================================
